---------------------------- MODULE Spec2Model ----------------------------
(***************************************************************************)
(* Model of network_connections.py: the packed-table decoder               *)
(* (parse_raw_connection_data, post_process_connection_data), the          *)
(* aggregator (count_connections) and the pipeline of main().              *)
(*                                                                         *)
(* Text is modelled as a sequence of one-character strings, so that the    *)
(* regular expression, the slicing text[a:b], int(text, 16), str.lower()   *)
(* and str.format() are computed character by character.                   *)
(***************************************************************************)
EXTENDS Integers, Sequences, FiniteSets, TLC

VARIABLES
    pc,           \* position of the running call / of main()
    tcp4,         \* lines of net/tcp   (main line 383)
    tcp6,         \* lines of net/tcp6
    udp4,         \* lines of net/udp
    udp6,         \* lines of net/udp6
    connections,  \* list of parsed entries (line 175, main line 386)
    output,       \* post-processed entries (line 211, main line 387)
    statistics,   \* count matrix being built (line 325)
    index,        \* position of the loop of count_connections (line 331)
    stderr,       \* diagnostics printed to sys.stderr (lines 337, 340)
    stdout,       \* matrices printed by main (line 393)
    error,        \* the exception that ended the call, if any
    returned,     \* <<argument, matrix>> of every return of count_connections
    calls         \* number of direct calls of count_connections so far

vars == <<pc, tcp4, tcp6, udp4, udp6, connections, output, statistics, index,
          stderr, stdout, error, returned, calls>>

(***************************************************************************)
(* Bounds of the model.                                                    *)
(***************************************************************************)
MaxLines == 2      \* lines over the four input lists together
MaxRecords == 2    \* records in one direct call of count_connections
MaxCalls == 3      \* direct calls of count_connections in a row

(***************************************************************************)
(* Characters and conversions of the Python runtime.                       *)
(***************************************************************************)
DecDigits == <<"0", "1", "2", "3", "4", "5", "6", "7", "8", "9">>
UpperHex == <<"A", "B", "C", "D", "E", "F">>
LowerHex == <<"a", "b", "c", "d", "e", "f">>

Range(f) == {f[i] : i \in DOMAIN f}

DigitChars == Range(DecDigits)
UpperChars == Range(UpperHex)
HexChars == DigitChars \cup UpperChars \cup Range(LowerHex)
SpaceChars == {" ", "\t"}

IndexOf(seq, c) == CHOOSE i \in DOMAIN seq : seq[i] = c

\* the character classes of the pattern: [0-9], [0-9A-Fa-f], \s, ':' and '.'
InClass(c, cls) ==
    CASE cls = "digit" -> c \in DigitChars
      [] cls = "hex"   -> c \in HexChars
      [] cls = "space" -> c \in SpaceChars
      [] cls = "colon" -> c = ":"
      [] cls = "any"   -> c # "\n"

\* value of one hexadecimal digit
HexDigitValue(c) ==
    IF c \in DigitChars THEN IndexOf(DecDigits, c) - 1
    ELSE IF c \in UpperChars THEN IndexOf(UpperHex, c) + 9
    ELSE IndexOf(LowerHex, c) + 9

\* int(text, 16)
RECURSIVE HexToInt(_)
HexToInt(text) ==
    IF text = <<>> THEN 0
    ELSE 16 * HexToInt(SubSeq(text, 1, Len(text) - 1)) + HexDigitValue(text[Len(text)])

\* str(n) for n >= 0, as str.format renders '{}'
RECURSIVE IntToStr(_)
IntToStr(n) ==
    IF n < 10 THEN <<DecDigits[n + 1]>>
    ELSE IntToStr(n \div 10) \o <<DecDigits[(n % 10) + 1]>>

\* str.lower()
Lower(text) ==
    [i \in DOMAIN text |->
        IF text[i] \in UpperChars THEN LowerHex[IndexOf(UpperHex, text[i])]
        ELSE text[i]]

\* the slice text[a:b] of Python (0-based, b exclusive)
Slice(text, a, b) == SubSeq(text, a + 1, b)

(***************************************************************************)
(* STATE_MAP and the regular expression of parse_raw_connection_data.      *)
(***************************************************************************)
STATE_MAP ==
    (1 :> "ESTABLISHED") @@ (2 :> "SYN_SENT") @@ (3 :> "SYN_RECV") @@
    (4 :> "FIN_WAIT1") @@ (5 :> "FIN_WAIT2") @@ (6 :> "TIME_WAIT") @@
    (7 :> "CLOSE") @@ (8 :> "CLOSE_WAIT") @@ (9 :> "LAST_ACK") @@
    (10 :> "LISTEN") @@ (11 :> "CLOSING") @@ (12 :> "UNKNOWN") @@
    (13 :> "UNKNOWN")

\* An item of the pattern: a character class repeated either one of the
\* counts of `alts' (tried left to right) or, when `alts' is empty, greedily
\* at least `min' times.  `group' is the number of the capture group, or 0.
Exactly(cls, alts, g) == [cls |-> cls, alts |-> alts, min |-> 0, group |-> g]
Greedy(cls, min, g) == [cls |-> cls, alts |-> <<>>, min |-> min, group |-> g]

tcp_pattern == <<
    Greedy("digit", 1, 1),          \* ([0-9]+)       "sl"
    Exactly("colon", <<1>>, 0),     \* :
    Greedy("space", 1, 0),          \* \s+
    Exactly("hex", <<32, 8>>, 2),   \* "local_address" (ip only)
    Exactly("colon", <<1>>, 0),
    Exactly("hex", <<32, 4>>, 3),   \* "local_address" (port only)
    Greedy("space", 1, 0),
    Exactly("hex", <<32, 8>>, 4),   \* "rem_address" (ip only)
    Exactly("colon", <<1>>, 0),
    Exactly("hex", <<32, 4>>, 5),   \* "rem_address" (port only)
    Greedy("space", 1, 0),
    Exactly("hex", <<2>>, 6),       \* "st"
    Greedy("space", 1, 0),
    Greedy("hex", 1, 7),            \* "tx_queue"
    Exactly("colon", <<1>>, 0),
    Greedy("hex", 1, 8),            \* "rx_queue"
    Greedy("space", 1, 0),
    Greedy("hex", 1, 9),            \* "tr"
    Exactly("colon", <<1>>, 0),
    Greedy("hex", 1, 10),           \* "tm->when"
    Greedy("space", 1, 0),
    Greedy("hex", 1, 11),           \* "retrnsmt"
    Greedy("space", 1, 0),
    Greedy("digit", 1, 12),         \* "uid"
    Greedy("space", 1, 0),
    Greedy("digit", 1, 13),         \* "timeout"
    Greedy("space", 1, 0),
    Greedy("digit", 1, 14),         \* "inode"
    Greedy("space", 1, 0),
    Greedy("any", 0, 15) >>         \* (.*)$

\* length of the longest run of characters of class cls starting at i
RECURSIVE RunLength(_, _, _)
RunLength(line, i, cls) ==
    IF i <= Len(line) /\ InClass(line[i], cls)
    THEN 1 + RunLength(line, i + 1, cls)
    ELSE 0

\* the positions where a match of `item' starting at i may end, in the
\* order the backtracking matcher of `re' tries them
Candidates(item, line, i) ==
    LET run == RunLength(line, i, item.cls) IN
    IF item.alts = <<>>
    THEN IF run < item.min THEN <<>>
         ELSE [c \in 1..(run - item.min + 1) |-> i + run - c + 1]
    ELSE LET fits == SelectSeq(item.alts, LAMBDA n : n <= run)
         IN  [c \in DOMAIN fits |-> i + fits[c]]

\* '$': the end of the string, or just before a newline that ends it
AtEnd(line, i) ==
    \/ i = Len(line) + 1
    \/ i = Len(line) /\ line[i] = "\n"

NoMatch == [ok |-> FALSE, ends |-> <<>>]

\* re.match from item k at position i: the end position of every item k..
RECURSIVE MatchFrom(_, _, _), TryCandidates(_, _, _, _)
MatchFrom(line, k, i) ==
    IF k > Len(tcp_pattern)
    THEN [ok |-> AtEnd(line, i), ends |-> <<>>]
    ELSE TryCandidates(line, k, Candidates(tcp_pattern[k], line, i), 1)

TryCandidates(line, k, cands, c) ==
    IF c > Len(cands) THEN NoMatch
    ELSE LET rest == MatchFrom(line, k + 1, cands[c]) IN
         IF rest.ok
         THEN [ok |-> TRUE, ends |-> <<cands[c]>> \o rest.ends]
         ELSE TryCandidates(line, k, cands, c + 1)

\* match.groups()[g - 1] of a successful match m
Group(line, m, g) ==
    LET k == CHOOSE j \in DOMAIN tcp_pattern : tcp_pattern[j].group = g
        from == IF k = 1 THEN 1 ELSE m.ends[k - 1]
    IN  SubSeq(line, from, m.ends[k] - 1)

NoError == [type |-> "none", text |-> <<>>]

\* parse_line: the entry of a line, or the exception carrying the line
parse_line(line) ==
    LET match == MatchFrom(line, 1, 1) IN
    IF ~match.ok
    THEN [ok |-> FALSE,
          error |-> [type |-> "Exception: Could not extract info from line",
                     text |-> line]]
    ELSE [ok |-> TRUE,
          entry |-> [sl            |-> Group(line, match, 1),
                     local_address |-> Group(line, match, 2),
                     local_port    |-> Group(line, match, 3),
                     rem_address   |-> Group(line, match, 4),
                     rem_port      |-> Group(line, match, 5),
                     st            |-> Group(line, match, 6),
                     tx_queue      |-> Group(line, match, 7),
                     rx_queue      |-> Group(line, match, 8),
                     tr            |-> Group(line, match, 9),
                     tm_when       |-> Group(line, match, 10),
                     retrnsmt      |-> Group(line, match, 11),
                     uid           |-> Group(line, match, 12),
                     timeout       |-> Group(line, match, 13),
                     inode         |-> Group(line, match, 14)]]


\* one "for line in ..." loop of parse_raw_connection_data: every line of
\* a list with the protocol label its entry gets
Labelled(lines, proto) ==
    [i \in DOMAIN lines |-> [line |-> lines[i], proto |-> proto]]

\* mutant of ParseOrder: both IPv4 lists are parsed before the IPv6 lists
ParseOrderByFamily(t4, t6, u4, u6) ==
    Labelled(t4, "tcp4") \o Labelled(u4, "udp4") \o
    Labelled(t6, "tcp6") \o Labelled(u6, "udp6")

\* lines 176-191: the order in which the four lists are parsed
ParseOrder(t4, t6, u4, u6) ==
    Labelled(t4, "tcp4") \o Labelled(t6, "tcp6") \o
    Labelled(u4, "udp4") \o Labelled(u6, "udp6")

Min(S) == CHOOSE m \in S : \A n \in S : m <= n

\* mutant of Collect: a line that does not match is left out
CollectMatching(todo, parsed) ==
    LET good == SelectSeq([i \in DOMAIN todo |-> i], LAMBDA i : parsed[i].ok)
    IN  [ok |-> TRUE,
         connections |-> [k \in DOMAIN good |->
                             parsed[good[k]].entry @@ [proto |-> todo[good[k]].proto]],
         error |-> NoError]

\* the result of the loops over lines whose parse_line results are `parsed'
Collect(todo, parsed) ==
    LET bad == {i \in DOMAIN todo : ~parsed[i].ok} IN
    IF bad # {}
    THEN [ok |-> FALSE, connections |-> <<>>, error |-> parsed[Min(bad)].error]
    ELSE [ok |-> TRUE,
          connections |-> [i \in DOMAIN todo |->
                              parsed[i].entry @@ [proto |-> todo[i].proto]],
          error |-> NoError]

\* parse_line applied to every line, in order
ParseAll(todo) == [i \in DOMAIN todo |-> parse_line(todo[i].line)]

\* parse_raw_connection_data(tcp4, tcp6, udp4, udp6): the entries of all
\* lines, or the exception of the first line that does not match
parse_raw_connection_data(t4, t6, u4, u6) ==
    CHOOSE result \in
        { Collect(step[1], step[2]) :
            step \in { <<todo, ParseAll(todo)>> :
                         todo \in {ParseOrder(t4, t6, u4, u6)} } } : TRUE

(***************************************************************************)
(* post_process_connection_data.                                           *)
(***************************************************************************)
Dot == <<".">>
Colon == <<":">>

\* mutant of hex_ip_to_decimal: the bytes are taken in text order
hex_ip_in_text_order(text) ==
    IF Len(text) = 8
    THEN [ok |-> TRUE,
          value |-> IntToStr(HexToInt(Slice(text, 0, 2))) \o Dot \o
                    IntToStr(HexToInt(Slice(text, 2, 4))) \o Dot \o
                    IntToStr(HexToInt(Slice(text, 4, 6))) \o Dot \o
                    IntToStr(HexToInt(Slice(text, 6, 8)))]
    ELSE IF Len(text) = 32
    THEN [ok |-> TRUE,
          value |-> Lower(
              Slice(text, 0, 4) \o Colon \o Slice(text, 4, 8) \o Colon \o
              Slice(text, 8, 12) \o Colon \o Slice(text, 12, 16) \o Colon \o
              Slice(text, 16, 20) \o Colon \o Slice(text, 20, 24) \o Colon \o
              Slice(text, 24, 28) \o Colon \o Slice(text, 28, 32))]
    ELSE [ok |-> FALSE,
          error |-> [type |-> "Exception: does not look like an IP address",
                     text |-> text]]

\* hex_ip_to_decimal(text): the address text, or the exception
hex_ip_to_decimal(text) ==
    IF Len(text) = 8
    THEN [ok |-> TRUE,
          value |-> IntToStr(HexToInt(Slice(text, 6, 8))) \o Dot \o
                    IntToStr(HexToInt(Slice(text, 4, 6))) \o Dot \o
                    IntToStr(HexToInt(Slice(text, 2, 4))) \o Dot \o
                    IntToStr(HexToInt(Slice(text, 0, 2)))]
    ELSE IF Len(text) = 32
    THEN [ok |-> TRUE,
          value |-> Lower(
              \* Word 1
              Slice(text, 6, 8) \o Slice(text, 4, 6) \o Colon \o
              Slice(text, 2, 4) \o Slice(text, 0, 2) \o Colon \o
              \* Word 2
              Slice(text, 14, 16) \o Slice(text, 12, 14) \o Colon \o
              Slice(text, 10, 12) \o Slice(text, 8, 10) \o Colon \o
              \* Word 3
              Slice(text, 22, 24) \o Slice(text, 20, 22) \o Colon \o
              Slice(text, 18, 20) \o Slice(text, 16, 18) \o Colon \o
              \* Word 4
              Slice(text, 30, 32) \o Slice(text, 28, 30) \o Colon \o
              Slice(text, 26, 28) \o Slice(text, 24, 26))]
    ELSE [ok |-> FALSE,
          error |-> [type |-> "Exception: does not look like an IP address",
                     text |-> text]]

Zero4 == <<"0", "0", "0", "0">>

\* the literal '0.0.0.0'
ANY_V4 == <<"0", ".", "0", ".", "0", ".", "0">>

\* the literal '0000:0000:0000:0000:0000:0000:0000:0000'
ANY_V6 ==
    Zero4 \o Colon \o Zero4 \o Colon \o Zero4 \o Colon \o Zero4 \o Colon \o
    Zero4 \o Colon \o Zero4 \o Colon \o Zero4 \o Colon \o Zero4

\* lines 267-274: whether the converted entry is skipped
IsDropped(entry) ==
    \/ /\ entry.proto = "tcp4" \/ entry.proto = "udp4"
       /\ entry.rem_address = ANY_V4
    \/ /\ entry.proto = "tcp6" \/ entry.proto = "udp6"
       /\ entry.rem_address = ANY_V6

\* lines 277-280: the state name of the hex state code, or the KeyError of
\* STATE_MAP[state_id]
DecodeState(st) ==
    LET state_id == HexToInt(st) IN
    IF state_id < Cardinality(DOMAIN STATE_MAP)
    THEN IF state_id \in DOMAIN STATE_MAP
         THEN [ok |-> TRUE, state |-> STATE_MAP[state_id]]
         ELSE [ok |-> FALSE, error |-> [type |-> "KeyError: STATE_MAP[state_id]", text |-> st]]
    ELSE [ok |-> TRUE, state |-> "UNKNOWN"]

\* the body of the loop of post_process_connection_data for one entry:
\* "keep" with the processed entry, "skip", or "raise" with the exception
PostProcessEntry(e) ==
    LET la == hex_ip_to_decimal(e.local_address)
        ra == hex_ip_to_decimal(e.rem_address)
    IN  IF ~la.ok THEN [kind |-> "raise", error |-> la.error]
        ELSE IF ~ra.ok THEN [kind |-> "raise", error |-> ra.error]
        ELSE LET entry == [e EXCEPT !.local_address = la.value,
                                    !.local_port = HexToInt(e.local_port),
                                    !.rem_address = ra.value,
                                    !.rem_port = HexToInt(e.rem_port)]
                 state == DecodeState(e.st)
             IN  IF IsDropped(entry) THEN [kind |-> "skip"]
                 ELSE IF ~state.ok THEN [kind |-> "raise", error |-> state.error]
                 ELSE [kind |-> "keep", entry |-> [entry EXCEPT !.st = state.state]]

\* the result of the loop over entries whose loop bodies gave `done'
Gather(done) ==
    LET bad == {i \in DOMAIN done : done[i].kind = "raise"}
        kept == SelectSeq(done, LAMBDA r : r.kind = "keep")
    IN  IF bad # {}
        THEN [ok |-> FALSE, output |-> <<>>, error |-> done[Min(bad)].error]
        ELSE [ok |-> TRUE,
              output |-> [i \in DOMAIN kept |-> kept[i].entry],
              error |-> NoError]

\* post_process_connection_data(connections): the kept entries in the
\* order of the input, or the exception of the first entry that raises
post_process_connection_data(conns) ==
    CHOOSE result \in
        { Gather(done) :
            done \in {[i \in DOMAIN conns |-> PostProcessEntry(conns[i])]} } : TRUE

(***************************************************************************)
(* count_connections.                                                      *)
(***************************************************************************)
\* mutant of supported_states: only the states the kernel names
NamedStatesOnly == {STATE_MAP[i] : i \in 1..11}

supported_states == Range(STATE_MAP)
supported_protocols == {"tcp4", "tcp6", "udp4", "udp6"}

\* mutant of EmptyStatistics: the matrix of the call before is kept
CarriedStatistics ==
    IF DOMAIN statistics = {}
    THEN [proto \in supported_protocols |-> [state \in supported_states |-> 0]]
    ELSE [proto \in supported_protocols |-> statistics[proto]]

\* lines 325-328: the zero matrix over the base protocols
EmptyStatistics ==
    [proto \in supported_protocols |-> [state \in supported_states |-> 0]]

\* mutant of CountEntry: the generic labels tcp and udp are counted as
\* tcp4 and udp4
CountEntryGenericLabels(stats, entry) ==
    LET proto == IF entry.proto = "tcp" THEN "tcp4"
                 ELSE IF entry.proto = "udp" THEN "udp4"
                 ELSE entry.proto
    IN  IF proto \notin supported_protocols
        THEN [statistics |-> stats,
              diag |-> << <<"Unsupported protocol", entry.proto>> >>]
        ELSE IF entry.st \notin supported_states
        THEN [statistics |-> stats,
              diag |-> << <<"Unsupported connection state", entry.st>> >>]
        ELSE [statistics |-> [stats EXCEPT ![proto][entry.st] = @ + 1],
              diag |-> <<>>]

\* mutant of CountEntry: a record in state UNKNOWN is not counted
CountEntryKnownOnly(stats, entry) ==
    IF entry.proto \notin supported_protocols
    THEN [statistics |-> stats,
          diag |-> << <<"Unsupported protocol", entry.proto>> >>]
    ELSE IF entry.st \notin supported_states \ {"UNKNOWN"}
    THEN [statistics |-> stats,
          diag |-> << <<"Unsupported connection state", entry.st>> >>]
    ELSE [statistics |-> [stats EXCEPT ![entry.proto][entry.st] = @ + 1],
          diag |-> <<>>]

\* lines 336-344: one record applied to the matrix; diag is what is
\* printed to sys.stderr
CountEntry(stats, entry) ==
    IF entry.proto \notin supported_protocols
    THEN [statistics |-> stats,
          diag |-> << <<"Unsupported protocol", entry.proto>> >>]
    ELSE IF entry.st \notin supported_states
    THEN [statistics |-> stats,
          diag |-> << <<"Unsupported connection state", entry.st>> >>]
    ELSE [statistics |-> [stats EXCEPT ![entry.proto][entry.st] = @ + 1],
          diag |-> <<>>]

\* mutant of AddRollups: tcp6 and udp6 are left out of the sums
AddRollupsV4Only(stats) ==
    LET tcp == [state \in supported_states |-> stats["tcp4"][state]]
        udp == [state \in supported_states |-> stats["udp4"][state]]
        all == [state \in supported_states |-> tcp[state] + udp[state]]
    IN  ("tcp" :> tcp) @@ ("udp" :> udp) @@ ("all" :> all) @@ stats

\* lines 347-354: the derived keys
AddRollups(stats) ==
    LET tcp == [state \in supported_states |->
                    stats["tcp4"][state] + stats["tcp6"][state]]
        udp == [state \in supported_states |->
                    stats["udp4"][state] + stats["udp6"][state]]
        all == [state \in supported_states |-> tcp[state] + udp[state]]
    IN  ("tcp" :> tcp) @@ ("udp" :> udp) @@ ("all" :> all) @@ stats


(***************************************************************************)
(* The operations as actions.  pc is "parse", "post", "count" at the entry *)
(* of the three functions, "count_loop" inside the loop of                 *)
(* count_connections, "returned" when count_connections has returned,      *)
(* "raised" when an exception left the running function, "exit" when main  *)
(* has printed, and "idle" before a direct call.                           *)
(***************************************************************************)
Raise(e) ==
    /\ pc' = "raised"
    /\ error' = e

\* main line 386: connections = parse_raw_connection_data(...)
Parse ==
    /\ pc = "parse"
    /\ \E r \in {parse_raw_connection_data(tcp4, tcp6, udp4, udp6)} :
       IF r.ok
       THEN /\ connections' = r.connections
            /\ pc' = "post"
            /\ error' = error
       ELSE /\ Raise(r.error)
            /\ connections' = connections
    /\ UNCHANGED <<tcp4, tcp6, udp4, udp6, output, statistics, index, stderr,
                   stdout, returned, calls>>

\* main line 387: connections = post_process_connection_data(connections)
PostProcess ==
    /\ pc = "post"
    /\ \E r \in {post_process_connection_data(connections)} :
       IF r.ok
       THEN /\ output' = r.output
            /\ pc' = "count"
            /\ error' = error
       ELSE /\ Raise(r.error)
            /\ output' = output
    /\ UNCHANGED <<tcp4, tcp6, udp4, udp6, connections, statistics, index,
                   stderr, stdout, returned, calls>>

\* count_connections lines 302-328: the key check and the empty matrix
CountBegin ==
    /\ pc = "count"
    /\ IF Len(output) > 0 /\ "st" \notin DOMAIN output[1]
       THEN /\ Raise([type |-> "Exception: Could not find state entry",
                      text |-> <<>>])
            /\ UNCHANGED <<statistics, index>>
       ELSE IF Len(output) > 0 /\ "proto" \notin DOMAIN output[1]
       THEN /\ Raise([type |-> "Exception: Could not find protocol entry",
                      text |-> <<>>])
            /\ UNCHANGED <<statistics, index>>
       ELSE /\ statistics' = EmptyStatistics
            /\ index' = 1
            /\ pc' = "count_loop"
            /\ error' = error
    /\ UNCHANGED <<tcp4, tcp6, udp4, udp6, connections, output, stderr, stdout,
                   returned, calls>>

\* count_connections lines 331-344: one iteration of the loop
CountStep ==
    /\ pc = "count_loop"
    /\ index <= Len(output)
    /\ LET entry == output[index] IN
       IF "proto" \notin DOMAIN entry \/ "st" \notin DOMAIN entry
       THEN /\ Raise([type |-> "KeyError: entry['proto'] or entry['st']",
                      text |-> <<>>])
            /\ UNCHANGED <<statistics, index, stderr>>
       ELSE \E r \in {CountEntry(statistics, entry)} :
            /\ statistics' = r.statistics
            /\ stderr' = stderr \o r.diag
            /\ index' = index + 1
            /\ UNCHANGED <<pc, error>>
    /\ UNCHANGED <<tcp4, tcp6, udp4, udp6, connections, output, stdout,
                   returned, calls>>

\* count_connections lines 346-356: the derived keys and the return
CountReturn ==
    /\ pc = "count_loop"
    /\ index > Len(output)
    /\ statistics' = AddRollups(statistics)
    /\ returned' = Append(returned, <<output, statistics'>>)
    /\ pc' = "returned"
    /\ UNCHANGED <<tcp4, tcp6, udp4, udp6, connections, output, index, stderr,
                   stdout, error, calls>>

\* main line 393: print(json.dumps(statistics, indent=4))
MainOutput ==
    /\ pc = "returned"
    /\ stdout' = Append(stdout, statistics)
    /\ pc' = "exit"
    /\ UNCHANGED <<tcp4, tcp6, udp4, udp6, connections, output, statistics,
                   index, stderr, error, returned, calls>>

(***************************************************************************)
(* Inputs.  A line is "<sl>: <body>"; sl numbers the lines of a file from  *)
(* 0 as the kernel does.                                                   *)
(***************************************************************************)
Sp == <<" ">>
Zero8 == Zero4 \o Zero4
Loopback4 == <<"0", "1", "0", "0", "0", "0", "7", "F">>      \* 127.0.0.1
Zero32 == Zero8 \o Zero8 \o Zero8 \o Zero8                   \* ::
Peer6 == <<"B", "8", "0", "D", "0", "1", "2", "0">> \o Zero8 \o Zero8 \o
         <<"0", "1", "0", "0", "0", "0", "0", "0">>          \* 2001:db8::1
Port80 == <<"0", "0", "5", "0">>
Port443 == <<"0", "1", "B", "B">>

\* the columns after "st": tx_queue:rx_queue tr:tm->when retrnsmt uid
\* timeout inode and the rest of the line
TailFields ==
    <<"0", ":", "0", " ", "0", "0", ":", "0", " ", "0", " ",
      "0", " ", "0", " ", "7", " ", "1">>

Body(local, rem, st) ==
    local \o Colon \o Port80 \o Sp \o rem \o Colon \o Port443 \o Sp \o st \o
    Sp \o TailFields

\* a line without the colon between remote address and port
NoColonBody ==
    Loopback4 \o Colon \o Port80 \o Sp \o Loopback4 \o Port443 \o Sp \o
    <<"0", "1">> \o Sp \o TailFields

\* a line cut after the remote port
TruncatedBody ==
    Loopback4 \o Colon \o Port80 \o Sp \o Loopback4 \o Colon \o Port443

ValidBodies ==
    { Body(Loopback4, Loopback4, <<"0", "1">>),
      Body(Loopback4, Zero8, <<"0", "A">>),
      Body(Peer6, Peer6, <<"0", "6">>),
      Body(Peer6, Zero32, <<"0", "A">>),
      Body(Loopback4, Loopback4, <<"0", "C">>),
      Body(Loopback4, Loopback4, <<"0", "D">>),
      Body(Loopback4, Loopback4, <<"0", "0">>) }

Bodies == ValidBodies \cup {NoColonBody, TruncatedBody}

MakeLine(n, body) == IntToStr(n) \o Colon \o Sp \o body

Numbered(bodies) == [i \in DOMAIN bodies |-> MakeLine(i - 1, bodies[i])]

\* main lines 382-383: the four header-stripped line lists
Init ==
    /\ pc = "parse"
    /\ \E n4 \in 0..MaxLines : \E n6 \in 0..(MaxLines - n4) :
       \E m4 \in 0..(MaxLines - n4 - n6) :
       \E m6 \in 0..(MaxLines - n4 - n6 - m4) :
       \E b4 \in [1..n4 -> Bodies], b6 \in [1..n6 -> Bodies],
          c4 \in [1..m4 -> Bodies], c6 \in [1..m6 -> Bodies] :
          /\ tcp4 = Numbered(b4)
          /\ tcp6 = Numbered(b6)
          /\ udp4 = Numbered(c4)
          /\ udp6 = Numbered(c6)
    /\ connections = <<>>
    /\ output = <<>>
    /\ statistics = <<>>
    /\ index = 0
    /\ stderr = <<>>
    /\ stdout = <<>>
    /\ error = NoError
    /\ returned = <<>>
    /\ calls = 0

Next ==
    \/ Parse
    \/ PostProcess
    \/ CountBegin
    \/ CountStep
    \/ CountReturn
    \/ MainOutput

Spec == Init /\ [][Next]_vars

(***************************************************************************)
(* count_connections called directly, on records of any protocol and       *)
(* state value, also ones that lack a key.                                 *)
(***************************************************************************)
Conn(proto, st) == [proto |-> proto, st |-> st]

Records ==
    { Conn(p, st) :
        p \in {"tcp4", "tcp6", "udp4", "udp6", "tcp", "udp", "all", "sctp"},
        st \in {"ESTABLISHED", "UNKNOWN", "BOGUS"} }
    \cup { [proto |-> "tcp4"], [st |-> "LISTEN"] }

SeqsUpTo(S, n) == UNION { [1..k -> S] : k \in 0..n }

Idle ==
    /\ tcp4 = <<>>
    /\ tcp6 = <<>>
    /\ udp4 = <<>>
    /\ udp6 = <<>>
    /\ connections = <<>>
    /\ statistics = <<>>
    /\ index = 0
    /\ stderr = <<>>
    /\ stdout = <<>>
    /\ error = NoError
    /\ returned = <<>>

\* count_connections(connections) called once
InitCount ==
    /\ pc = "count"
    /\ output \in SeqsUpTo(Records, MaxRecords)
    /\ calls = 1
    /\ Idle

NextCount ==
    \/ CountBegin
    \/ CountStep
    \/ CountReturn

SpecCount == InitCount /\ [][NextCount]_vars

(***************************************************************************)
(* count_connections called again and again by one caller.                 *)
(***************************************************************************)
FewRecords == { Conn("tcp4", "ESTABLISHED"), [proto |-> "udp6"] }

InitRepeat ==
    /\ pc = "idle"
    /\ output = <<>>
    /\ calls = 0
    /\ Idle

\* the caller calls count_connections(records)
CallCount ==
    /\ pc \in {"idle", "returned", "raised"}
    /\ calls < MaxCalls
    /\ \E records \in SeqsUpTo(FewRecords, MaxRecords) : output' = records
    /\ calls' = calls + 1
    /\ pc' = "count"
    /\ error' = NoError
    /\ UNCHANGED <<tcp4, tcp6, udp4, udp6, connections, statistics, index,
                   stderr, stdout, returned>>

NextRepeat ==
    \/ CallCount
    \/ CountBegin
    \/ CountStep
    \/ CountReturn

SpecRepeat == InitRepeat /\ [][NextRepeat]_vars

(***************************************************************************)
(* post_process_connection_data called directly on one parsed entry.       *)
(***************************************************************************)
Entry(proto, local, rem, st) ==
    [sl |-> <<"0">>, local_address |-> local, local_port |-> Port80,
     rem_address |-> rem, rem_port |-> Port443, st |-> st,
     tx_queue |-> <<"0">>, rx_queue |-> <<"0">>, tr |-> <<"0", "0">>,
     tm_when |-> <<"0">>, retrnsmt |-> <<"0">>, uid |-> <<"0">>,
     timeout |-> <<"0">>, inode |-> <<"7">>, proto |-> proto]

\* byte pairs and 32-bit words the sample addresses are made of
SampleBytes == { <<"0", "0">>, <<"0", "1">>, <<"7", "F">>, <<"f", "e">> }
SampleWords ==
    { Zero8, <<"B", "8", "0", "D", "0", "1", "2", "0">>,
      <<"0", "1", "0", "0", "0", "0", "a", "C">> }

Addresses4 == { a \o b \o c \o d : a, b, c, d \in SampleBytes }
Addresses6 == { a \o b \o c \o d : a, b, c, d \in SampleWords }

\* every 2-hex-digit state code written with upper-case digits, and two
\* written with lower-case ones
StateCodes ==
    { <<a, b>> : a, b \in DigitChars \cup UpperChars }
    \cup { <<"0", "a">>, <<"f", "f">> }

SampleEntries ==
    { Entry("tcp4", a, Loopback4, <<"0", "1">>) : a \in Addresses4 }
    \cup { Entry("udp6", a, Peer6, <<"0", "1">>) : a \in Addresses6 }
    \cup { Entry("tcp4", Loopback4, Loopback4, st) : st \in StateCodes }
    \cup { Entry(p, Loopback4, r, st) :
             p \in supported_protocols,
             r \in {Zero8, Zero32, Loopback4, Peer6},
             st \in { <<"0", "0">>, <<"0", "A">> } }
    \cup { Entry("tcp4", Zero4, Loopback4, <<"0", "1">>) }

InitPost ==
    /\ pc = "post"
    /\ \E e \in SampleEntries : connections = <<e>>
    /\ tcp4 = <<>>
    /\ tcp6 = <<>>
    /\ udp4 = <<>>
    /\ udp6 = <<>>
    /\ output = <<>>
    /\ statistics = <<>>
    /\ index = 0
    /\ stderr = <<>>
    /\ stdout = <<>>
    /\ error = NoError
    /\ returned = <<>>
    /\ calls = 0

NextPost == PostProcess

SpecPost == InitPost /\ [][NextPost]_vars

(***************************************************************************)
(* Vocabulary of the properties.                                           *)
(***************************************************************************)
BaseKeys == {"tcp4", "tcp6", "udp4", "udp6"}
AllKeys == {"tcp4", "tcp6", "tcp", "udp4", "udp6", "udp", "all"}
StateNames ==
    {"ESTABLISHED", "SYN_SENT", "SYN_RECV", "FIN_WAIT1", "FIN_WAIT2",
     "TIME_WAIT", "CLOSE", "CLOSE_WAIT", "LAST_ACK", "LISTEN", "CLOSING",
     "UNKNOWN"}

\* the four input lists in the order tcp4, tcp6, udp4, udp6
AllInput == tcp4 \o tcp6 \o udp4 \o udp6

\* the label of the list the i-th line of AllInput comes from
LabelAt(i) ==
    IF i <= Len(tcp4) THEN "tcp4"
    ELSE IF i <= Len(tcp4) + Len(tcp6) THEN "tcp6"
    ELSE IF i <= Len(tcp4) + Len(tcp6) + Len(udp4) THEN "udp4"
    ELSE "udp6"

\* a line that breaks the field grammar
Malformed(line) ==
    \E n \in 0..MaxLines :
        line \in {MakeLine(n, NoColonBody), MakeLine(n, TruncatedBody)}

MalformedAt == {i \in DOMAIN AllInput : Malformed(AllInput[i])}

\* the text an entry was parsed from
Unparse(e) ==
    e.sl \o Colon \o Sp \o e.local_address \o Colon \o e.local_port \o Sp \o
    e.rem_address \o Colon \o e.rem_port \o Sp \o e.st \o Sp \o
    e.tx_queue \o Colon \o e.rx_queue \o Sp \o e.tr \o Colon \o e.tm_when \o
    Sp \o e.retrnsmt \o Sp \o e.uid \o Sp \o e.timeout \o Sp \o e.inode \o
    Sp \o <<"1">>

\* what identifies a record of one run: its list and its number in it
Key(e) == <<e.proto, e.sl>>

Keys(entries) == [i \in DOMAIN entries |-> Key(entries[i])]

IsSubsequence(a, b) ==
    \E f \in [DOMAIN a -> DOMAIN b] :
        /\ \A i, j \in DOMAIN a : i < j => f[i] < f[j]
        /\ \A i \in DOMAIN a : a[i] = b[f[i]]

RECURSIVE SumOver(_, _)
SumOver(f, S) ==
    IF S = {} THEN 0
    ELSE LET x == CHOOSE y \in S : TRUE IN f[x] + SumOver(f, S \ {x})

ParseReturned == pc \in {"post", "count", "count_loop", "returned", "exit"}
PostReturned == pc \in {"count", "count_loop", "returned", "exit"}
CountReturned == pc \in {"returned", "exit"}

(***************************************************************************)
(* C1: whatever records count_connections is given (none, or ones with     *)
(* unsupported protocol or state values), the matrix it returns has, for   *)
(* every state s, tcp[s] = tcp4[s] + tcp6[s], udp[s] = udp4[s] + udp6[s]   *)
(* and all[s] = tcp4[s] + tcp6[s] + udp4[s] + udp6[s].                     *)
(***************************************************************************)
C1_RollupsAreSums ==
    pc = "returned" =>
        \A s \in StateNames :
            /\ statistics["tcp"][s] = statistics["tcp4"][s] + statistics["tcp6"][s]
            /\ statistics["udp"][s] = statistics["udp4"][s] + statistics["udp6"][s]
            /\ statistics["all"][s] =
                   statistics["tcp4"][s] + statistics["tcp6"][s] +
                   statistics["udp4"][s] + statistics["udp6"][s]

\* a call on a tcp6 record and a record of an unsupported protocol returned
C1_Witness ==
    /\ pc = "returned"
    /\ output = <<Conn("tcp6", "ESTABLISHED"), Conn("sctp", "ESTABLISHED")>>
    /\ statistics["tcp"]["ESTABLISHED"] = 1
    /\ statistics["all"]["ESTABLISHED"] = 1

(***************************************************************************)
(* C2: the matrix count_connections returns has exactly the keys tcp4,     *)
(* tcp6, tcp, udp4, udp6, udp, all, each mapping exactly the 12 state      *)
(* names to a non-negative integer; with no records every cell is 0.       *)
(***************************************************************************)
C2_DenseMatrix ==
    pc = "returned" =>
        /\ DOMAIN statistics = AllKeys
        /\ \A p \in AllKeys :
              /\ DOMAIN statistics[p] = StateNames
              /\ \A s \in StateNames : statistics[p][s] \in Nat
        /\ output = <<>> =>
              \A p \in AllKeys : \A s \in StateNames : statistics[p][s] = 0

\* a call without records returned
C2_Witness ==
    /\ pc = "returned"
    /\ output = <<>>
    /\ Cardinality(DOMAIN statistics) = 7

(***************************************************************************)
(* C6: count_connections skips a record whose protocol is not one of tcp4, *)
(* tcp6, udp4, udp6 (a roll-up label tcp, udp, all included) or whose      *)
(* state is not one of the 12 names, with one diagnostic each and without  *)
(* ending the call; every cell of a base protocol counts exactly the       *)
(* records with that protocol and state, and no derived key exists while   *)
(* the records are counted.                                                *)
(***************************************************************************)
HasBothKeys(records) == \A i \in DOMAIN records : DOMAIN records[i] = {"proto", "st"}

IsSupported(r) == r.proto \in BaseKeys /\ r.st \in StateNames

\* the diagnostic the claim expects for an unsupported record
ExpectedDiagnostic(r) ==
    IF r.proto \notin BaseKeys THEN <<"Unsupported protocol", r.proto>>
    ELSE <<"Unsupported connection state", r.st>>

C6_UnsupportedSkipped ==
    (HasBothKeys(output) /\ pc # "count") =>
        LET seen == IF pc = "count_loop" THEN 1..(index - 1) ELSE DOMAIN output
            skipped == SelectSeq([i \in seen |-> output[i]],
                                 LAMBDA r : ~IsSupported(r))
        IN  /\ pc \in {"count_loop", "returned"}
            /\ pc = "count_loop" => DOMAIN statistics = BaseKeys
            /\ \A p \in BaseKeys : \A s \in StateNames :
                  statistics[p][s] =
                      Cardinality({i \in seen : output[i] = Conn(p, s)})
            /\ stderr = [k \in DOMAIN skipped |-> ExpectedDiagnostic(skipped[k])]

\* a call on a record labelled with a roll-up key and one with an unknown
\* state returned
C6_Witness ==
    /\ pc = "returned"
    /\ output = <<Conn("tcp", "ESTABLISHED"), Conn("udp4", "BOGUS")>>
    /\ Len(stderr) = 2

(***************************************************************************)
(* C9: count_connections carries nothing from one call to the next: in a   *)
(* series of calls on any arguments, two calls on the same records return  *)
(* the same matrix, whatever was aggregated in between.                    *)
(***************************************************************************)
C9_NoStateBetweenCalls ==
    \A i, j \in DOMAIN returned :
        returned[i][1] = returned[j][1] => returned[i][2] = returned[j][2]

\* the first and the third call had the same records, the second others
C9_Witness ==
    /\ Len(returned) = 3
    /\ returned[1][1] = returned[3][1]
    /\ returned[1][1] # <<>>
    /\ returned[2][1] # returned[1][1]
    /\ returned[2][1] # <<>>

(***************************************************************************)
(* C8: hex_ip_to_decimal turns the 8 hex digits b0 b1 b2 b3 into the       *)
(* dotted decimal b3.b2.b1.b0 (0100007F gives 127.0.0.1), and 32 hex       *)
(* digits into the four words, each with its bytes reversed, as 8 groups   *)
(* of 4 lower-case hex digits joined by colons in word order.              *)
(***************************************************************************)
\* the k-th byte (two hex digits) of a text, k = 1, 2, ...
ByteAt(text, k) == <<text[2 * k - 1], text[2 * k]>>

RECURSIVE JoinWith(_, _)
JoinWith(parts, sep) ==
    IF Len(parts) = 1 THEN parts[1]
    ELSE parts[1] \o sep \o JoinWith(Tail(parts), sep)

\* the decimal value a string of decimal digits denotes
RECURSIVE DecimalValue(_)
DecimalValue(digits) ==
    IF digits = <<>> THEN 0
    ELSE 10 * DecimalValue(SubSeq(digits, 1, Len(digits) - 1)) +
         (IndexOf(DecDigits, digits[Len(digits)]) - 1)

\* the values of the octets of a dotted decimal text, left to right
RECURSIVE Octets(_, _)
Octets(text, acc) ==
    IF text = <<>> THEN <<DecimalValue(acc)>>
    ELSE IF Head(text) = "." THEN <<DecimalValue(acc)>> \o Octets(Tail(text), <<>>)
    ELSE Octets(Tail(text), Append(acc, Head(text)))

\* the 16-bit groups the claim names, for the 32 hex digits of `text'
ReversedWordGroups(text) ==
    [g \in 1..8 |->
        LET w == (g - 1) \div 2
        IN  IF g % 2 = 1
            THEN ByteAt(text, 4 * w + 4) \o ByteAt(text, 4 * w + 3)
            ELSE ByteAt(text, 4 * w + 2) \o ByteAt(text, 4 * w + 1)]

IsDecoded(text, address) ==
    IF Len(text) = 8
    THEN /\ Octets(address, <<>>) = [k \in 1..4 |-> HexToInt(ByteAt(text, 5 - k))]
         /\ \A i \in DOMAIN address : address[i] \in DigitChars \cup {"."}
         /\ text = Loopback4 =>
                address = <<"1", "2", "7", ".", "0", ".", "0", ".", "1">>
    ELSE /\ address = Lower(JoinWith(ReversedWordGroups(text), Colon))
         /\ \A i \in DOMAIN address : address[i] \notin UpperChars

C8_BytesReversed ==
    PostReturned =>
        \A i \in DOMAIN output :
            \E j \in DOMAIN connections :
                /\ Key(connections[j]) = Key(output[i])
                /\ IsDecoded(connections[j].local_address, output[i].local_address)
                /\ IsDecoded(connections[j].rem_address, output[i].rem_address)

\* an IPv6 entry with upper-case digits in its address was converted
C8_Witness ==
    /\ pc = "count"
    /\ Len(output) = 1
    /\ connections[1].local_address =
           <<"B", "8", "0", "D", "0", "1", "2", "0">> \o Zero8 \o
           <<"0", "1", "0", "0", "0", "0", "a", "C">> \o Zero8
    /\ output[1].local_address =
           <<"2", "0", "0", "1", ":", "0", "d", "b", "8", ":">> \o
           Zero4 \o Colon \o Zero4 \o Colon \o
           <<"a", "c", "0", "0", ":", "0", "0", "0", "1", ":">> \o
           Zero4 \o Colon \o Zero4

(***************************************************************************)
(* C5: when any line of the four lists breaks the field grammar, wherever  *)
(* it stands and however many valid lines precede it,                      *)
(* parse_raw_connection_data raises an exception carrying that line and    *)
(* returns no records, and main ends without printing a matrix.            *)
(***************************************************************************)
C5_MalformedLineAborts ==
    MalformedAt # {} =>
        /\ pc \in {"parse", "raised"}
        /\ connections = <<>>
        /\ output = <<>>
        /\ stdout = <<>>
        /\ pc = "raised" =>
              /\ error.type = "Exception: Could not extract info from line"
              /\ error.text = AllInput[Min(MalformedAt)]

\* the run ended on a malformed udp6 line that follows a valid tcp4 line
C5_Witness ==
    /\ pc = "raised"
    /\ Len(tcp4) = 1
    /\ ~Malformed(tcp4[1])
    /\ Len(udp6) = 1
    /\ Malformed(udp6[1])
    /\ error.text = udp6[1]

(***************************************************************************)
(* C7: parse_raw_connection_data gives one entry per line, in the order    *)
(* tcp4, tcp6, udp4, udp6 and line by line within a list, each labelled    *)
(* with its list; post_process_connection_data keeps the order of the      *)
(* entries it keeps.                                                       *)
(***************************************************************************)
C7_OrderPreserved ==
    /\ ParseReturned =>
          /\ Len(connections) = Len(AllInput)
          /\ \A i \in DOMAIN connections :
                /\ connections[i].proto = LabelAt(i)
                /\ Unparse(connections[i]) = AllInput[i]
    /\ PostReturned => IsSubsequence(Keys(output), Keys(connections))

\* a tcp6 line and a udp4 line were parsed and both entries kept
C7_Witness ==
    /\ pc = "count"
    /\ Len(tcp6) = 1
    /\ Len(udp4) = 1
    /\ Len(output) = 2
    /\ output[1].proto = "tcp6"
    /\ output[2].proto = "udp4"

(***************************************************************************)
(* C10: every record post_process_connection_data emits has one of the     *)
(* four base protocols and one of the 12 state names, count_connections    *)
(* skips none of them, and the cells of `all' add up to the number of      *)
(* emitted records, which is the number of lines less the dropped ones.    *)
(***************************************************************************)
DroppedAt == {i \in DOMAIN connections :
                 \A k \in DOMAIN output : Key(output[k]) # Key(connections[i])}

C10_CountConserved ==
    /\ stderr = <<>>
    /\ error.type \notin {"Exception: Could not find state entry",
                          "Exception: Could not find protocol entry",
                          "KeyError: entry['proto'] or entry['st']"}
    /\ PostReturned =>
          /\ \A i \in DOMAIN output :
                output[i].proto \in BaseKeys /\ output[i].st \in StateNames
          /\ Len(output) = Len(AllInput) - Cardinality(DroppedAt)
    /\ CountReturned =>
          SumOver(statistics["all"], StateNames) = Len(output)

\* two lines were read, one was dropped, the other counted as UNKNOWN
C10_Witness ==
    /\ pc = "exit"
    /\ Len(AllInput) = 2
    /\ Len(output) = 1
    /\ statistics["all"]["UNKNOWN"] = 1
    /\ stdout = <<statistics>>

(***************************************************************************)
(* C3: state decoding is total: the codes 01..0B give the state of the     *)
(* table, 0C and 0D give UNKNOWN, every other code (00 and 0E..FF) gives   *)
(* UNKNOWN, and no error is raised.                                        *)
(***************************************************************************)
TableNames ==
    <<"ESTABLISHED", "SYN_SENT", "SYN_RECV", "FIN_WAIT1", "FIN_WAIT2",
      "TIME_WAIT", "CLOSE", "CLOSE_WAIT", "LAST_ACK", "LISTEN", "CLOSING">>

ClaimedState(code) ==
    IF HexToInt(code) \in DOMAIN TableNames THEN TableNames[HexToInt(code)]
    ELSE "UNKNOWN"

C3_StateDecodingTotal ==
    /\ error.type # "KeyError: STATE_MAP[state_id]"
    /\ PostReturned =>
          \A i \in DOMAIN output :
              \E j \in DOMAIN connections :
                  /\ Key(connections[j]) = Key(output[i])
                  /\ output[i].st = ClaimedState(connections[j].st)

(***************************************************************************)
(* C4: whichever list an entry comes from, it is absent from the output    *)
(* of post_process_connection_data when its remote address decodes to      *)
(* 0.0.0.0 or 0000:0000:0000:0000:0000:0000:0000:0000, and present         *)
(* otherwise.                                                              *)
(***************************************************************************)
C4_FilterUniform ==
    PostReturned =>
        \A i \in DOMAIN connections :
            hex_ip_to_decimal(connections[i].rem_address).value \in {ANY_V4, ANY_V6}
                <=> i \in DroppedAt

=============================================================================
